---------------------------- MODULE Spec2Model ----------------------------
(***************************************************************************)
(* Model of knowledge_base/generate_rules.py: the rule text synthesizer    *)
(* (_base_rule_text), the fixed safety rules (_safety_rules), the          *)
(* generator (generate_rules) and the entry point (main) that writes       *)
(* rules.json.                                                             *)
(*                                                                         *)
(* Python str values are TLA+ strings; f-strings and " ".join are string   *)
(* concatenation.  The two sentences of the source that hold U+2011        *)
(* (non-breaking hyphen) carry the stand-in NonBreakingHyphen, because a   *)
(* TLA+ string literal is ASCII.  A process run of main() is one pass of   *)
(* pc from "main" to "done" or "error"; generate_rules() runs one loop    *)
(* iteration per step.                                                     *)
(***************************************************************************)
EXTENDS Integers, Sequences, FiniteSets, TLC

\* How many times the program is run, one process after the other.
MaxRuns == 2

---------------------------------------------------------------------------
\* Module constants

SKIN_TYPES == <<"oily", "dry", "combination", "sensitive", "normal">>

\* The list with "dryness" typed where "dullness" belongs
CONCERNS_DrynessTwice ==
    <<"acne", "pigmentation", "dryness", "dryness", "redness", "texture",
      "fine_lines", "sun_protection">>

CONCERNS ==
    <<"acne", "pigmentation", "dullness", "dryness", "redness", "texture",
      "fine_lines", "sun_protection">>

\* for routine in ("am", "pm")
ROUTINES == <<"am", "pm">>

\* Stand-in for the character U+2011 of the source strings.
NonBreakingHyphen == "~"

---------------------------------------------------------------------------
\* str.join

RECURSIVE Join(_, _)
Join(parts, sep) ==
    IF Len(parts) = 0 THEN ""
    ELSE IF Len(parts) = 1 THEN parts[1]
    ELSE parts[1] \o sep \o Join(Tail(parts), sep)

---------------------------------------------------------------------------
\* _base_rule_text

\* The test made against "pm"
SwappedRoutineLabel(routine) == IF routine = "pm" THEN "morning" ELSE "evening"

\* routine_label = "morning" if routine == "am" else "evening"
RoutineLabel(routine) == IF routine = "am" THEN "morning" ELSE "evening"

\* parts = [ opening sentence, caution sentence ]
OpeningParts(skin_type, concern, routine) ==
    << "For " \o skin_type \o " skin with " \o concern
         \o " concerns, build a gentle " \o RoutineLabel(routine) \o " routine.",
       "Use mild, cosmetic skincare products and stop using anything that feels irritating." >>

\* The chain without its last branch
ConcernPartsNoSunProtection(concern) ==
    IF concern = "acne" THEN
        <<"Focus on lightweight, non-comedogenic textures and avoid heavy occlusive layers.">>
    ELSE IF concern = "pigmentation" THEN
        <<"Look for brightening cosmetic ingredients and be consistent rather than using strong products.">>
    ELSE IF concern = "dullness" THEN
        <<"Add gentle hydrating layers and avoid over-scrubbing the skin surface.">>
    ELSE IF concern = "dryness" THEN
        <<"Use soft, cushioning textures and seal in hydration with a comfortable moisturizer.">>
    ELSE IF concern = "redness" THEN
        <<"Choose simple, fragrance" \o NonBreakingHyphen
            \o "free formulas and keep water temperature lukewarm.">>
    ELSE IF concern = "texture" THEN
        <<"Keep the barrier comfortable first; use any texture" \o NonBreakingHyphen
            \o "smoothing cosmetics sparingly.">>
    ELSE IF concern = "fine_lines" THEN
        <<"Layer hydrating serums and moisturizers to reduce the look of fine lines caused by dryness.">>
    ELSE <<>>

\* The if / elif chain over concern: the parts it appends (none when no
\* branch matches, since the chain has no else).
ConcernParts(concern) ==
    IF concern = "acne" THEN
        <<"Focus on lightweight, non-comedogenic textures and avoid heavy occlusive layers.">>
    ELSE IF concern = "pigmentation" THEN
        <<"Look for brightening cosmetic ingredients and be consistent rather than using strong products.">>
    ELSE IF concern = "dullness" THEN
        <<"Add gentle hydrating layers and avoid over-scrubbing the skin surface.">>
    ELSE IF concern = "dryness" THEN
        <<"Use soft, cushioning textures and seal in hydration with a comfortable moisturizer.">>
    ELSE IF concern = "redness" THEN
        <<"Choose simple, fragrance" \o NonBreakingHyphen
            \o "free formulas and keep water temperature lukewarm.">>
    ELSE IF concern = "texture" THEN
        <<"Keep the barrier comfortable first; use any texture" \o NonBreakingHyphen
            \o "smoothing cosmetics sparingly.">>
    ELSE IF concern = "fine_lines" THEN
        <<"Layer hydrating serums and moisturizers to reduce the look of fine lines caused by dryness.">>
    ELSE IF concern = "sun_protection" THEN
        <<"Use a comfortable, broad cosmetic sunscreen and reapply according to the label.">>
    ELSE <<>>

_base_rule_text(skin_type, concern, routine) ==
    Join(OpeningParts(skin_type, concern, routine) \o ConcernParts(concern), " ")

---------------------------------------------------------------------------
\* _safety_rules

_safety_rules ==
    << [tags |-> "safety:patch_test routine:any",
        text |-> "Before using a new cosmetic product on your face, patch test on a small "
                 \o "area of skin and wait at least 24 hours to see how your skin responds."],
       [tags |-> "safety:introduce_slowly routine:any",
        text |-> "Introduce only one new cosmetic product at a time so you can clearly see "
                 \o "how your skin reacts and avoid overwhelming your routine."],
       [tags |-> "safety:avoid_over_exfoliating routine:any",
        text |-> "Avoid exfoliating too often. If your skin feels tight, itchy, or looks "
                 \o "very shiny and sensitive, reduce exfoliating products and focus on simple hydration."],
       [tags |-> "safety:non_medical routine:any",
        text |-> "These suggestions are cosmetic and educational only, and are not a "
                 \o "substitute for professional medical advice, diagnosis, or treatment."] >>

---------------------------------------------------------------------------
\* generate_rules: the pieces of its body

\* The new items put before the old ones
ExtendAtFront(list, more) == more \o list

\* list.extend
list_extend(list, more) == list \o more

\* The tags with the routine's display label in place of the routine
CategoryTagsWithLabel(skin, concern, routine) ==
    "skin_type:" \o skin \o " concern:" \o concern \o " routine:" \o RoutineLabel(routine)

\* The tags with the routine facet left out
CategoryTagsNoRoutine(skin, concern, routine) ==
    "skin_type:" \o skin \o " concern:" \o concern

\* tags = f"skin_type:{skin} concern:{concern} routine:{routine}"
CategoryTags(skin, concern, routine) ==
    "skin_type:" \o skin \o " concern:" \o concern \o " routine:" \o routine

\* {"tags": tags, "text": text}
CategoryRule(skin, concern, routine) ==
    [tags |-> CategoryTags(skin, concern, routine),
     text |-> _base_rule_text(skin, concern, routine)]

generic_rules ==
    << [tags |-> "skin_type:any concern:any routine:am_step_order",
        text |-> "A gentle morning routine can follow this order: cleanse, optional mist, serum, moisturizer, and sunscreen."],
       [tags |-> "skin_type:any concern:any routine:pm_step_order",
        text |-> "A simple evening routine can follow this order: cleanse, optional hydrating toner or essence, serum, moisturizer."],
       [tags |-> "skin_type:any concern:any routine:consistency",
        text |-> "Consistency with a comfortable routine usually matters more than frequently swapping products."] >>


\* enumerate(rules, start=1)
EnumerateStart == 1

\* f"{idx:03d}": decimal digits, zero-padded on the left to width 3 at least
RECURSIVE ZeroPad(_, _)
ZeroPad(digits, width) ==
    IF Len(digits) >= width THEN digits ELSE ZeroPad("0" \o digits, width)

\* f"R{idx}", the padding forgotten
FormatIdUnpadded(idx) == "R" \o ToString(idx)

\* f"R{idx:03d}"
FormatId(idx) == "R" \o ZeroPad(ToString(idx), 3)

\* the record with the rule's text stored under both keys
WithIdTextAsTags(idx, rule) ==
    [id |-> FormatId(idx), tags |-> rule.text, text |-> rule.text]

\* {"id": f"R{idx:03d}", "tags": rule["tags"], "text": rule["text"]}
WithId(idx, rule) ==
    [id |-> FormatId(idx), tags |-> rule.tags, text |-> rule.text]

\* The insertion order of the keys of that dict, which json.dump follows.
KeyOrder == <<"id", "tags", "text">>

---------------------------------------------------------------------------
\* main: paths and json.dump(rules, f, indent=2, ensure_ascii=False)

\* here = os.path.dirname(os.path.abspath(__file__))
here == "knowledge_base"

\* out_path = os.path.join(here, "rules.json")
out_path == here \o "/" \o "rules.json"

\* One character of a JSON string: the encoder escapes the quote, the
\* backslash and the control characters; with ensure_ascii=False every
\* other character, U+2011 included, is written as it is.
EscapeChar(c) ==
    IF c = "\"" THEN "\\\""
    ELSE IF c = "\\" THEN "\\\\"
    ELSE IF c = "\n" THEN "\\n"
    ELSE IF c = "\r" THEN "\\r"
    ELSE IF c = "\t" THEN "\\t"
    ELSE c

\* The characters lo..hi of s, each escaped (by halves, to keep the
\* evaluation shallow).
RECURSIVE EscapeRange(_, _, _)
EscapeRange(s, lo, hi) ==
    IF lo > hi THEN ""
    ELSE IF lo = hi THEN EscapeChar(SubSeq(s, lo, lo))
    ELSE LET mid == (lo + hi) \div 2
         IN  EscapeRange(s, lo, mid) \o EscapeRange(s, mid + 1, hi)

EncodeString(s) == "\"" \o EscapeRange(s, 1, Len(s)) \o "\""

\* "key": "value"
EncodeItem(obj, key) == EncodeString(key) \o ": " \o EncodeString(obj[key])

\* One dict of the list, at indent level 2 of indent=2.
EncodeObject(obj) ==
    "{" \o "\n    "
        \o Join([k \in 1..Len(KeyOrder) |-> EncodeItem(obj, KeyOrder[k])], ",\n    ")
        \o "\n  " \o "}"

\* The writes json.dump makes, one per record and one for the closing
\* bracket; "[]" alone for an empty list.
NumChunks(rs) == IF Len(rs) = 0 THEN 1 ELSE Len(rs) + 1

Chunk(rs, k) ==
    IF Len(rs) = 0 THEN "[]"
    ELSE IF k = Len(rs) + 1 THEN "\n" \o "]"
    ELSE (IF k = 1 THEN "[" \o "\n  " ELSE "," \o "\n  ") \o EncodeObject(rs[k])

\* open(out_path, "a"): the content is kept and the writes follow it
OpenAppend(content) == content

\* open(out_path, "w"): the file is truncated
OpenWrite(content) == ""

\* An exception swallowed: the run goes on to the print
Swallowed == "print"

\* Nothing in main catches: an exception ends the run
Uncaught == "error"

\* print(f"[generate_rules] Wrote {len(rules)} rules to {out_path}")
ConfirmationMessage(rs) ==
    "[generate_rules] Wrote " \o ToString(Len(rs)) \o " rules to " \o out_path

---------------------------------------------------------------------------
\* State

VARIABLES
    pc,            \* where the running process is
    runs,          \* which run of the program this is
    skin_i, concern_i, routine_i,   \* positions of the three nested loops
    rules,         \* generate_rules: rules
    idx,           \* generate_rules: idx of the enumerate loop
    with_ids,      \* generate_rules: with_ids
    main_rules,    \* main: rules
    dir_exists,    \* the directory `here` exists
    file_exists,   \* rules.json exists
    file_content,  \* its content
    f,             \* the file object of the with statement
    chunk,         \* the next write of json.dump
    stdout,        \* what this run has printed
    outputs        \* the content of rules.json after each run that ended well

gen_vars == <<skin_i, concern_i, routine_i, rules, idx, with_ids>>
fs_vars == <<dir_exists, file_exists, file_content>>
vars == <<pc, runs, skin_i, concern_i, routine_i, rules, idx, with_ids,
          main_rules, dir_exists, file_exists, file_content, f, chunk,
          stdout, outputs>>

\* Contents rules.json may have before the first run, other than an
\* earlier output of the program (which a second run meets).
StaleContents == {"", "{\"stale\": true}\n"}

Init ==
    /\ pc = "main"
    /\ runs = 1
    /\ skin_i = 1 /\ concern_i = 1 /\ routine_i = 1
    /\ rules = <<>>
    /\ idx = EnumerateStart
    /\ with_ids = <<>>
    /\ main_rules = <<>>
    /\ dir_exists \in BOOLEAN
    /\ file_exists \in (IF dir_exists THEN BOOLEAN ELSE {FALSE})
    /\ file_content \in (IF file_exists THEN StaleContents ELSE {""})
    /\ f = "none"
    /\ chunk = 1
    /\ stdout = <<>>
    /\ outputs = <<>>

---------------------------------------------------------------------------
\* generate_rules

\* main calls generate_rules(), which starts with rules = []
CallGenerateRules ==
    /\ pc = "main"
    /\ pc' = "category"
    /\ rules' = <<>>
    /\ skin_i' = 1 /\ concern_i' = 1 /\ routine_i' = 1
    /\ UNCHANGED <<runs, idx, with_ids, main_rules, dir_exists, file_exists,
                   file_content, f, chunk, stdout, outputs>>

\* One iteration of the innermost loop, and the advance of the three loops.
AppendCategoryRule ==
    /\ pc = "category"
    /\ rules' = Append(rules, CategoryRule(SKIN_TYPES[skin_i], CONCERNS[concern_i],
                                            ROUTINES[routine_i]))
    /\ IF routine_i < Len(ROUTINES)
         THEN /\ routine_i' = routine_i + 1
              /\ UNCHANGED <<concern_i, skin_i, pc>>
         ELSE /\ routine_i' = 1
              /\ IF concern_i < Len(CONCERNS)
                   THEN /\ concern_i' = concern_i + 1
                        /\ UNCHANGED <<skin_i, pc>>
                   ELSE /\ concern_i' = 1
                        /\ IF skin_i < Len(SKIN_TYPES)
                             THEN skin_i' = skin_i + 1 /\ UNCHANGED pc
                             ELSE skin_i' = 1 /\ pc' = "generic"
    /\ UNCHANGED <<runs, idx, with_ids, main_rules, dir_exists, file_exists,
                   file_content, f, chunk, stdout, outputs>>

\* rules.extend(generic_rules)
ExtendGeneric ==
    /\ pc = "generic"
    /\ rules' = list_extend(rules, generic_rules)
    /\ pc' = "safety"
    /\ UNCHANGED <<runs, skin_i, concern_i, routine_i, idx, with_ids, main_rules,
                   dir_exists, file_exists, file_content, f, chunk, stdout, outputs>>

\* rules.extend(_safety_rules()); with_ids = []
ExtendSafety ==
    /\ pc = "safety"
    /\ rules' = list_extend(rules, _safety_rules)
    /\ with_ids' = <<>>
    /\ idx' = EnumerateStart
    /\ pc' = "attach_ids"
    /\ UNCHANGED <<runs, skin_i, concern_i, routine_i, main_rules,
                   dir_exists, file_exists, file_content, f, chunk, stdout, outputs>>

\* One iteration of: for idx, rule in enumerate(rules, start=1)
AttachId ==
    /\ pc = "attach_ids"
    /\ Len(with_ids) < Len(rules)
    /\ with_ids' = Append(with_ids, WithId(idx, rules[Len(with_ids) + 1]))
    /\ idx' = idx + 1
    /\ UNCHANGED <<pc, runs, skin_i, concern_i, routine_i, rules, main_rules,
                   dir_exists, file_exists, file_content, f, chunk, stdout, outputs>>

\* The loop is exhausted: return with_ids, which main binds to rules
ReturnWithIds ==
    /\ pc = "attach_ids"
    /\ Len(with_ids) = Len(rules)
    /\ main_rules' = with_ids
    /\ pc' = "makedirs"
    /\ UNCHANGED <<runs, skin_i, concern_i, routine_i, rules, idx, with_ids,
                   dir_exists, file_exists, file_content, f, chunk, stdout, outputs>>

---------------------------------------------------------------------------
\* main, after generate_rules() has returned

\* os.makedirs(here, exist_ok=True): nothing to do, or the directory is made
MakeDirs ==
    /\ pc = "makedirs"
    /\ dir_exists' = TRUE
    /\ pc' = "open"
    /\ UNCHANGED <<runs, gen_vars, main_rules, file_exists, file_content, f,
                   chunk, stdout, outputs>>

\* os.makedirs raises: the directory is missing and cannot be made
MakeDirsFails ==
    /\ pc = "makedirs"
    /\ ~dir_exists
    /\ pc' = Uncaught
    /\ UNCHANGED <<runs, gen_vars, main_rules, fs_vars, f, chunk, stdout, outputs>>

\* with open(out_path, "w", encoding="utf-8") as f
OpenFile ==
    /\ pc = "open"
    /\ file_exists' = TRUE
    /\ file_content' = OpenWrite(file_content)
    /\ f' = "open"
    /\ chunk' = 1
    /\ pc' = "dump"
    /\ UNCHANGED <<runs, gen_vars, main_rules, dir_exists, stdout, outputs>>

\* open raises: nothing is opened and the file is as it was
OpenFileFails ==
    /\ pc = "open"
    /\ pc' = Uncaught
    /\ UNCHANGED <<runs, gen_vars, main_rules, fs_vars, f, chunk, stdout, outputs>>

\* json.dump: the next write
WriteChunk ==
    /\ pc = "dump"
    /\ chunk <= NumChunks(main_rules)
    /\ file_content' = file_content \o Chunk(main_rules, chunk)
    /\ chunk' = chunk + 1
    /\ UNCHANGED <<pc, runs, gen_vars, main_rules, dir_exists, file_exists, f,
                   stdout, outputs>>

\* json.dump: a write raises; the exception leaves the with block
WriteChunkFails ==
    /\ pc = "dump"
    /\ chunk <= NumChunks(main_rules)
    /\ pc' = "unwind"
    /\ UNCHANGED <<runs, gen_vars, main_rules, fs_vars, f, chunk, stdout, outputs>>

\* The with statement closes f on the way out of an exception
ExitWithOnError ==
    /\ pc = "unwind"
    /\ f' = "closed"
    /\ pc' = Uncaught
    /\ UNCHANGED <<runs, gen_vars, main_rules, fs_vars, chunk, stdout, outputs>>

\* json.dump has returned: the with statement closes f
ExitWith ==
    /\ pc = "dump"
    /\ chunk > NumChunks(main_rules)
    /\ f' = "closed"
    /\ pc' = "print"
    /\ UNCHANGED <<runs, gen_vars, main_rules, fs_vars, chunk, stdout, outputs>>

\* The closing flush raises: f is closed all the same
ExitWithFails ==
    /\ pc = "dump"
    /\ chunk > NumChunks(main_rules)
    /\ f' = "closed"
    /\ pc' = Uncaught
    /\ UNCHANGED <<runs, gen_vars, main_rules, fs_vars, chunk, stdout, outputs>>

\* print(...), and main returns
PrintConfirmation ==
    /\ pc = "print"
    /\ stdout' = Append(stdout, ConfirmationMessage(main_rules))
    /\ outputs' = Append(outputs, file_content)
    /\ pc' = "done"
    /\ UNCHANGED <<runs, gen_vars, main_rules, fs_vars, f, chunk>>

\* The program is run again, as a new process: only the file system stays
RunAgain ==
    /\ pc \in {"done", "error"}
    /\ runs < MaxRuns
    /\ runs' = runs + 1
    /\ pc' = "main"
    /\ skin_i' = 1 /\ concern_i' = 1 /\ routine_i' = 1
    /\ rules' = <<>>
    /\ idx' = EnumerateStart
    /\ with_ids' = <<>>
    /\ main_rules' = <<>>
    /\ f' = "none"
    /\ chunk' = 1
    /\ stdout' = <<>>
    /\ UNCHANGED <<fs_vars, outputs>>

\* The steps of one run
RunStep ==
    \/ CallGenerateRules
    \/ AppendCategoryRule
    \/ ExtendGeneric
    \/ ExtendSafety
    \/ AttachId
    \/ ReturnWithIds
    \/ MakeDirs
    \/ MakeDirsFails
    \/ OpenFile
    \/ OpenFileFails
    \/ WriteChunk
    \/ WriteChunkFails
    \/ ExitWithOnError
    \/ ExitWith
    \/ ExitWithFails
    \/ PrintConfirmation

Next == RunStep \/ RunAgain

Spec == Init /\ [][Next]_vars

---------------------------------------------------------------------------
\* Reading strings back: what the properties below say about tags and text

\* sub occurs in s
Contains(s, sub) ==
    \E i \in 1..(Len(s) - Len(sub) + 1) : SubSeq(s, i, i + Len(sub) - 1) = sub

StartsWith(s, prefix) ==
    Len(s) >= Len(prefix) /\ SubSeq(s, 1, Len(prefix)) = prefix

\* s.split(ch), ch one character
Split(s, ch) ==
    LET P == {i \in 1..Len(s) : SubSeq(s, i, i) = ch}
        n == Cardinality(P)
        Sep(k) == IF k = 0 THEN 0
                  ELSE IF k = n + 1 THEN Len(s) + 1
                  ELSE CHOOSE p \in P : Cardinality({q \in P : q < p}) = k - 1
    IN  [k \in 1..(n + 1) |-> SubSeq(s, Sep(k - 1) + 1, Sep(k) - 1)]

\* The facet:value pairs of a tags string, in order.
Facets(tags) ==
    LET words == Split(tags, " ")
    IN  [k \in 1..Len(words) |->
            LET kv == Split(words[k], ":")
            IN  [facet |-> kv[1], value |-> Join(Tail(kv), ":")]]

FacetCount(tags, facet) ==
    LET fs == Facets(tags) IN Cardinality({k \in 1..Len(fs) : fs[k].facet = facet})

HasFacet(tags, facet) == FacetCount(tags, facet) > 0

\* The value of the first facet of that name.
FacetValue(tags, facet) ==
    LET fs == Facets(tags)
        k  == CHOOSE k \in 1..Len(fs) :
                  fs[k].facet = facet /\ \A j \in 1..(k - 1) : fs[j].facet # facet
    IN  fs[k].value

\* The sets and orders the specification declares.
DeclaredSkinTypes == {"oily", "dry", "combination", "sensitive", "normal"}
DeclaredConcerns ==
    {"acne", "pigmentation", "dullness", "dryness", "redness", "texture",
     "fine_lines", "sun_protection"}
DeclaredRoutines == {"am", "pm"}
SkinTypeOrder == <<"oily", "dry", "combination", "sensitive", "normal">>
ConcernOrder ==
    <<"acne", "pigmentation", "dullness", "dryness", "redness", "texture",
      "fine_lines", "sun_protection">>
RoutineOrder == <<"am", "pm">>
GenericRoutines == <<"am_step_order", "pm_step_order", "consistency">>
SafetyOrder ==
    <<"patch_test", "introduce_slowly", "avoid_over_exfoliating", "non_medical">>

\* The facet lists of the declared triples: 5 x 8 x 2 of them.
DeclaredTriples ==
    { << [facet |-> "skin_type", value |-> s],
         [facet |-> "concern", value |-> c],
         [facet |-> "routine", value |-> r] >> :
        s \in DeclaredSkinTypes, c \in DeclaredConcerns, r \in DeclaredRoutines }

\* generate_rules() has just returned: main's rules holds its result.
Returned == pc = "makedirs"

\* A record of the category enumeration, a generic record, a safety record.
IsCategory(r) ==
    /\ HasFacet(r.tags, "skin_type") /\ HasFacet(r.tags, "concern")
    /\ FacetValue(r.tags, "skin_type") # "any"
IsGeneric(r) ==
    /\ HasFacet(r.tags, "skin_type") /\ HasFacet(r.tags, "concern")
    /\ FacetValue(r.tags, "skin_type") = "any"
IsSafety(r) == HasFacet(r.tags, "safety")

\* The decimal digits of n, three of them.
ThreeDigits(n) ==
    LET D(d) == SubSeq("0123456789", d + 1, d + 1)
    IN  D((n \div 100) % 10) \o D((n \div 10) % 10) \o D(n % 10)

\* The whole of what json.dump writes for rs.
RECURSIVE ChunksRange(_, _, _)
ChunksRange(rs, lo, hi) ==
    IF lo > hi THEN ""
    ELSE IF lo = hi THEN Chunk(rs, lo)
    ELSE LET mid == (lo + hi) \div 2
         IN  ChunksRange(rs, lo, mid) \o ChunksRange(rs, mid + 1, hi)

Serialized(rs) == ChunksRange(rs, 1, NumChunks(rs))

---------------------------------------------------------------------------
C2_SequentialIds ==
    Returned =>
        /\ Len(main_rules) = 87
        /\ \A i \in 1..Len(main_rules) : main_rules[i].id = "R" \o ThreeDigits(i)
        /\ \A i, j \in 1..Len(main_rules) :
              i # j => main_rules[i].id # main_rules[j].id

C2_Witness ==
    /\ Returned
    /\ main_rules[1].id = "R001"
    /\ main_rules[9].id = "R009"
    /\ main_rules[87].id = "R087"

\* C3: the result holds the category records first, in the nested order
\* skin_type -> concern -> routine of the declared lists, then the three
\* generic records (am_step_order, pm_step_order, consistency), then the
\* four safety records R084..R087, whose tags start with "safety:", in the
\* order patch_test, introduce_slowly, avoid_over_exfoliating, non_medical.
C3_OutputOrder ==
    Returned =>
        /\ Len(main_rules) = 87
        /\ \A s \in 1..5, c \in 1..8, r \in 1..2 :
              LET fs == Facets(main_rules[((s - 1) * 8 + (c - 1)) * 2 + r].tags)
              IN  /\ Len(fs) = 3
                  /\ fs[1] = [facet |-> "skin_type", value |-> SkinTypeOrder[s]]
                  /\ fs[2] = [facet |-> "concern", value |-> ConcernOrder[c]]
                  /\ fs[3] = [facet |-> "routine", value |-> RoutineOrder[r]]
        /\ \A g \in 1..3 :
              /\ IsGeneric(main_rules[80 + g])
              /\ FacetValue(main_rules[80 + g].tags, "routine") = GenericRoutines[g]
        /\ \A k \in 1..4 :
              /\ StartsWith(main_rules[83 + k].tags, "safety:")
              /\ FacetValue(main_rules[83 + k].tags, "safety") = SafetyOrder[k]
              /\ main_rules[83 + k].id = "R" \o ThreeDigits(83 + k)

C3_Witness ==
    /\ Returned
    /\ main_rules[1].tags = "skin_type:oily concern:acne routine:am"
    /\ main_rules[81].tags = "skin_type:any concern:any routine:am_step_order"
    /\ main_rules[84].tags = "safety:patch_test routine:any"
    /\ main_rules[87].tags = "safety:non_medical routine:any"

\* C4, as stated: every record of the result whose tags hold both a
\* skin_type facet and a concern facet has a declared skin type, a declared
\* concern and the routine facet am or pm.
C4_AsStated ==
    Returned =>
        \A i \in 1..Len(main_rules) :
            LET t == main_rules[i].tags
            IN  (HasFacet(t, "skin_type") /\ HasFacet(t, "concern")) =>
                    /\ FacetValue(t, "skin_type") \in DeclaredSkinTypes
                    /\ FacetValue(t, "concern") \in DeclaredConcerns
                    /\ HasFacet(t, "routine")
                    /\ FacetValue(t, "routine") \in DeclaredRoutines

\* C4, amended: every record of the result whose tags hold both a skin_type
\* facet and a concern facet either has a declared skin type, a declared
\* concern and the routine facet am or pm, or is one of the three generic
\* records R081..R083, which carry skin_type:any, concern:any and the
\* routine facet am_step_order, pm_step_order or consistency.
C4_FacetValues ==
    Returned =>
        \A i \in 1..Len(main_rules) :
            LET t == main_rules[i].tags
            IN  (HasFacet(t, "skin_type") /\ HasFacet(t, "concern")) =>
                    /\ HasFacet(t, "routine")
                    /\ \/ /\ FacetValue(t, "skin_type") \in DeclaredSkinTypes
                          /\ FacetValue(t, "concern") \in DeclaredConcerns
                          /\ FacetValue(t, "routine") \in DeclaredRoutines
                       \/ /\ i \in 81..83
                          /\ FacetValue(t, "skin_type") = "any"
                          /\ FacetValue(t, "concern") = "any"
                          /\ FacetValue(t, "routine") = GenericRoutines[i - 80]

C4_Witness ==
    /\ Returned
    /\ \E i \in 1..Len(main_rules) :
          /\ FacetValue(main_rules[i].tags, "skin_type") = "sensitive"
          /\ FacetValue(main_rules[i].tags, "concern") = "redness"
          /\ FacetValue(main_rules[i].tags, "routine") = "pm"
    /\ HasFacet(main_rules[82].tags, "skin_type")
    /\ HasFacet(main_rules[82].tags, "concern")
    /\ FacetValue(main_rules[82].tags, "skin_type") = "any"

\* The sentences of a text: what lies before each full stop.
Sentences(text) == Split(text, ".")

\* C5: for every declared (skin_type, concern, routine) the text is exactly
\* three sentences joined by single spaces: an opening sentence, the fixed
\* caution sentence and one sentence that belongs to the concern (the same
\* for equal concerns, different for different ones), never two sentences
\* only; every acne text contains "non-comedogenic"; and the text for
\* (oily, acne, am) is the specification's concrete string.
C5_ConcernDispatch ==
    Returned =>
        LET cat == {i \in 1..Len(main_rules) : IsCategory(main_rules[i])}
        IN  /\ {FacetValue(main_rules[i].tags, "concern") : i \in cat} = DeclaredConcerns
            /\ \A i \in cat :
                  LET text == main_rules[i].text
                      ss   == Sentences(text)
                  IN  /\ Len(ss) = 4
                      /\ ss[4] = ""
                      /\ Len(ss[1]) > 0 /\ ~StartsWith(ss[1], " ")
                      /\ ss[2] = " Use mild, cosmetic skincare products and stop using anything that feels irritating"
                      /\ Len(ss[3]) > 1 /\ StartsWith(ss[3], " ")
                      /\ ~Contains(text, "  ")
                      /\ FacetValue(main_rules[i].tags, "concern") = "acne"
                            => Contains(ss[3], "non-comedogenic")
            /\ Cardinality({<<FacetValue(main_rules[i].tags, "concern"),
                              Sentences(main_rules[i].text)[3]>> : i \in cat}) = 8
            /\ Cardinality({Sentences(main_rules[i].text)[3] : i \in cat}) = 8
            /\ main_rules[1].tags = "skin_type:oily concern:acne routine:am"
            /\ main_rules[1].text =
                  "For oily skin with acne concerns, build a gentle morning routine. "
                  \o "Use mild, cosmetic skincare products and stop using anything that feels irritating. "
                  \o "Focus on lightweight, non-comedogenic textures and avoid heavy occlusive layers."

C5_Witness ==
    /\ Returned
    /\ \E i \in 1..Len(main_rules) :
          /\ FacetValue(main_rules[i].tags, "concern") = "sun_protection"
          /\ Len(Sentences(main_rules[i].text)) = 4
          /\ Contains(main_rules[i].text, "sunscreen")
    /\ Contains(main_rules[2].text, "non-comedogenic")

\* C6: the routine label is "morning" for "am" and "evening" for any other
\* value; so the opening sentence of every category record tagged
\* routine:am names the morning, that of every one tagged routine:pm the
\* evening, and the opening sentence names the skin type and the concern
\* of the record's tags.
C6_RoutineLabel ==
    /\ RoutineLabel("am") = "morning"
    /\ \A other \in {"pm", "any", "AM", ""} : RoutineLabel(other) = "evening"
    /\ Returned =>
          \A i \in {j \in 1..Len(main_rules) : IsCategory(main_rules[j])} :
              LET t       == main_rules[i].tags
                  opening == Sentences(main_rules[i].text)[1]
                  routine == FacetValue(t, "routine")
              IN  /\ routine \in DeclaredRoutines
                  /\ routine = "am" =>
                        Contains(opening, "morning") /\ ~Contains(opening, "evening")
                  /\ routine = "pm" =>
                        Contains(opening, "evening") /\ ~Contains(opening, "morning")
                  /\ StartsWith(opening, "For " \o FacetValue(t, "skin_type") \o " skin with "
                                             \o FacetValue(t, "concern") \o " concerns,")

C6_Witness ==
    /\ Returned
    /\ FacetValue(main_rules[3].tags, "routine") = "am"
    /\ Contains(Sentences(main_rules[3].text)[1], "morning")
    /\ FacetValue(main_rules[4].tags, "routine") = "pm"
    /\ Contains(Sentences(main_rules[4].text)[1], "evening")

\* C7: whatever rules.json held before (nothing, an earlier output, partial
\* or other content), a run that ends well leaves it holding exactly the
\* serialization of the rules generate_rules() returned, and the contents
\* left by any two runs that ended well are identical.
C7_Idempotent ==
    /\ pc = "done" =>
          /\ file_exists
          /\ file_content = Serialized(main_rules)
          /\ Len(outputs) > 0 /\ outputs[Len(outputs)] = file_content
    /\ \A i, j \in 1..Len(outputs) : outputs[i] = outputs[j]

C7_Witness ==
    /\ pc = "done"
    /\ Len(outputs) = 2
    /\ Len(file_content) > 0

\* C8: an I/O failure in makedirs, open, a write or the closing flush is
\* neither caught nor retried: the run is in the error state with nothing
\* left to do, has printed nothing and holds no open file; a run prints at
\* most one message, and only once every chunk has been written, the file
\* is closed and the file holds the whole serialization.
C8_FailurePropagates ==
    /\ pc = "error" =>
          /\ f # "open"
          /\ stdout = <<>>
          /\ ~ENABLED RunStep
    /\ Len(stdout) <= 1
    /\ stdout # <<>> =>
          /\ pc = "done"
          /\ f = "closed"
          /\ chunk > NumChunks(main_rules)
          /\ file_content = Serialized(main_rules)
          /\ stdout[1] = "[generate_rules] Wrote 87 rules to knowledge_base/rules.json"

C8_Witness ==
    /\ pc = "error"
    /\ f = "closed"
    /\ chunk > 1 /\ chunk <= NumChunks(main_rules)
    /\ stdout = <<>>

\* C9: no id is attached before the whole sequence (category, generic and
\* safety records) is assembled; the pass keeps the length and the order,
\* copies tags and text of every record unchanged and adds only the id, so
\* every record of the result has exactly the keys id, tags, text.
C9_IdPassIsPostProcessing ==
    /\ with_ids # <<>> =>
          /\ pc \notin {"category", "generic", "safety"}
          /\ Len(rules) = 87
          /\ rules[Len(rules)].tags = "safety:non_medical routine:any"
    /\ Len(with_ids) <= Len(rules)
    /\ \A i \in 1..Len(with_ids) :
          /\ DOMAIN with_ids[i] = {"id", "tags", "text"}
          /\ with_ids[i].tags = rules[i].tags
          /\ with_ids[i].text = rules[i].text
    /\ \A i \in 1..Len(rules) : DOMAIN rules[i] = {"tags", "text"}
    /\ Returned => main_rules = with_ids /\ Len(main_rules) = Len(rules)

C9_Witness ==
    /\ pc = "attach_ids"
    /\ Len(with_ids) = 40
    /\ Len(rules) = 87
    /\ with_ids[40].tags = rules[40].tags

\* C10: the tags of the 87 records of the result are pairwise distinct, and
\* every record carries exactly one routine facet.
C10_TagsUnique ==
    Returned =>
        /\ Len(main_rules) = 87
        /\ \A i, j \in 1..Len(main_rules) :
              i # j => main_rules[i].tags # main_rules[j].tags
        /\ \A i \in 1..Len(main_rules) : FacetCount(main_rules[i].tags, "routine") = 1

C10_Witness ==
    /\ Returned
    /\ Cardinality({main_rules[i].tags : i \in 1..Len(main_rules)}) = 87
    /\ FacetCount(main_rules[85].tags, "routine") = 1

=============================================================================
